---------------------------- MODULE Spec2Model ----------------------------
(***************************************************************************)
(* Model of the ooz/oidlib XY vector classes U16XY and I4XY (and of the    *)
(* 4-bit unsigned class the interface documentation uses as its example).  *)
(*                                                                         *)
(* A JavaScript number is modelled as a pair <<n, d>>: a rational n/d in   *)
(* lowest terms with d > 0, or one of the three non-finite values          *)
(* <<1,0>> (+Infinity), <<-1,0>> (-Infinity) and <<0,0>> (NaN).  Zero has  *)
(* no sign in the model.  Arguments are drawn from rationals that binary   *)
(* floating point holds exactly.                                           *)
(***************************************************************************)
EXTENDS Integers, Sequences, FiniteSets, TLC

(***************************************************************************)
(* Bounds of the model.                                                    *)
(***************************************************************************)
\* Number of calls made on the vectors in one run.
MaxCalls == 2

\* The largest component whose magnitude is taken: squares stay inside TLC's
\* integers and roots inside the search of SqrtOf.
MaxSide == 200

(***************************************************************************)
(* JavaScript numbers.                                                     *)
(***************************************************************************)
Sgn(n) == IF n > 0 THEN 1 ELSE IF n < 0 THEN -1 ELSE 0

AbsInt(n) == IF n < 0 THEN -n ELSE n

RECURSIVE GCD(_, _)
GCD(a, b) == IF b = 0 THEN a ELSE GCD(b, a % b)

\* The number n/d (d >= 0) in canonical form; d = 0 gives the non-finite values.
Norm(n, d) ==
  IF d = 0 THEN <<Sgn(n), 0>>
  ELSE IF n = 0 THEN <<0, 1>>
  ELSE LET g == GCD(AbsInt(n), d) IN <<n \div g, d \div g>>

Num(i) == <<i, 1>>
Half(i) == Norm(i, 2)
Tenths(i) == Norm(i, 10)
NaN == <<0, 0>>
PosInf == <<1, 0>>
NegInf == <<-1, 0>>

IsFinite(r) == r[2] # 0
IsNaN(r) == r = NaN
\* Number.isInteger
IsInteger(r) == r[2] = 1

\* p < q as JavaScript evaluates it: false whenever an operand is NaN.
Lt(p, q) ==
  IF IsNaN(p) \/ IsNaN(q) THEN FALSE
  ELSE IF ~IsFinite(p) \/ ~IsFinite(q)
    THEN (p = NegInf /\ q # NegInf) \/ (q = PosInf /\ p # PosInf)
  ELSE p[1] * q[2] < q[1] * p[2]

\* p + q, p - q, p * q, p / q for a finite right operand q.
Plus(p, q) == Norm(p[1] * q[2] + q[1] * p[2], p[2] * q[2])
Minus(p, q) == Norm(p[1] * q[2] - q[1] * p[2], p[2] * q[2])
Times(p, q) == Norm(p[1] * q[1], p[2] * q[2])
Over(p, q) ==
  IF q[1] = 0 THEN Norm(p[1], 0)
  ELSE Norm(p[1] * q[2] * Sgn(q[1]), p[2] * AbsInt(q[1]))

\* Math.max, Math.min, Math.abs: NaN when an operand is NaN.
MathMax(p, q) == IF IsNaN(p) \/ IsNaN(q) THEN NaN ELSE IF Lt(p, q) THEN q ELSE p
MathMin(p, q) == IF IsNaN(p) \/ IsNaN(q) THEN NaN ELSE IF Lt(q, p) THEN q ELSE p
MathAbs(r) == <<AbsInt(r[1]), r[2]>>

\* Rounding of a finite number to a whole number.
FloorOf(r) == Num(r[1] \div r[2])
CeilOf(r) == Num(-((-r[1]) \div r[2]))
TruncOf(r) == IF r[1] >= 0 THEN FloorOf(r) ELSE CeilOf(r)
\* Round half away from zero.
RoundOf(r) ==
  IF r[1] >= 0 THEN Num((2 * r[1] + r[2]) \div (2 * r[2]))
  ELSE Num(-((2 * (-r[1]) + r[2]) \div (2 * r[2])))


(***************************************************************************)
(* Scalar kinds and the coercion calculus.  The scalar modules (U16, I4,   *)
(* U4) are imported by the classes; their behaviour is the one the         *)
(* specification gives in its coercion table.                              *)
(***************************************************************************)
Scalars == {"U16", "I4", "U4"}

KindMin(k) == CASE k = "U16" -> 0 [] k = "I4" -> -8 [] k = "U4" -> 0
KindMax(k) == CASE k = "U16" -> 65535 [] k = "I4" -> 7 [] k = "U4" -> 15

\* A scalar value of kind k: a whole number inside [min, max].
IsScalar(k, r) == IsInteger(r) /\ KindMin(k) <= r[1] /\ r[1] <= KindMax(k)

Ok(r) == [ok |-> TRUE, val |-> r]
Throw == [ok |-> FALSE, val |-> NaN]

\* Saturation of a number that is not NaN into [min, max].
Saturate(k, r) ==
  IF Lt(r, Num(KindMin(k))) THEN Num(KindMin(k))
  ELSE IF Lt(Num(KindMax(k)), r) THEN Num(KindMax(k))
  ELSE r

\* Cast: the value must already be a scalar value of the kind.
Cast(k, r) == IF IsScalar(k, r) THEN Ok(r) ELSE Throw

\* Clamp: saturate, and truncate toward zero what lies inside the range.  An
\* infinity lies beyond a limit and saturates to it; NaN lies nowhere and is
\* a coercion failure.
Clamp(k, r) == IF IsNaN(r) THEN Throw ELSE Ok(TruncOf(Saturate(k, r)))

\* Ceil, Floor, Round, Trunc: round first, saturate second; a non-finite
\* input is a coercion failure.
Ceil(k, r) == IF IsFinite(r) THEN Ok(Saturate(k, CeilOf(r))) ELSE Throw
Floor(k, r) == IF IsFinite(r) THEN Ok(Saturate(k, FloorOf(r))) ELSE Throw
Round(k, r) == IF IsFinite(r) THEN Ok(Saturate(k, RoundOf(r))) ELSE Throw
Trunc(k, r) == IF IsFinite(r) THEN Ok(Saturate(k, TruncOf(r))) ELSE Throw

Coerce(k, pol, r) ==
  CASE pol = "Cast" -> Cast(k, r)
    [] pol = "Clamp" -> Clamp(k, r)
    [] pol = "Ceil" -> Ceil(k, r)
    [] pol = "Floor" -> Floor(k, r)
    [] pol = "Round" -> Round(k, r)
    [] pol = "Trunc" -> Trunc(k, r)

(***************************************************************************)
(* The XY classes.  A method name with a policy suffix (addCeil) is the    *)
(* operator of its family (add) applied to that policy ("Ceil"); the bare  *)
(* method name is policy "Cast".                                           *)
(***************************************************************************)
Classes == {"U16XY", "I4XY", "U4XY"}

\* The scalar module a class imports.
ScalarOf(c) == CASE c = "U16XY" -> "U16" [] c = "I4XY" -> "I4" [] c = "U4XY" -> "U4"

\* The policies a class offers on set/add/sub/mul/div/min/max.
Policies(c) ==
  IF c = "I4XY" THEN {"Cast", "Ceil", "Clamp", "Floor", "Round"}
  ELSE {"Cast", "Ceil", "Floor", "Round", "Trunc"}

\* The static factories of a class.
Factories(c) == Policies(c) \ {"Cast"}

\* The coercion absClamp, areaClamp and lenClamp/magnitudeClamp call.
ClampOf(c) == IF c = "I4XY" THEN "Clamp" ELSE "Trunc"

Vec(x, y) == [x |-> x, y |-> y]

\* Assign as it would be if the methods returned a copy of the receiver.
Assign_ReturnsCopy(c, pol, v, rx, ry) ==
  LET cx == Coerce(ScalarOf(c), pol, rx)
      cy == Coerce(ScalarOf(c), pol, ry)
  IN IF ~cx.ok THEN [x |-> v.x, y |-> v.y, ok |-> FALSE, ret |-> "none"]
     ELSE IF ~cy.ok THEN [x |-> cx.val, y |-> v.y, ok |-> FALSE, ret |-> "none"]
     ELSE [x |-> cx.val, y |-> cy.val, ok |-> TRUE, ret |-> "new"]

\* Assign as it would be with the y line first.
Assign_YFirst(c, pol, v, rx, ry) ==
  LET cx == Coerce(ScalarOf(c), pol, rx)
      cy == Coerce(ScalarOf(c), pol, ry)
  IN IF ~cy.ok THEN [x |-> v.x, y |-> v.y, ok |-> FALSE, ret |-> "none"]
     ELSE IF ~cx.ok THEN [x |-> v.x, y |-> cy.val, ok |-> FALSE, ret |-> "none"]
     ELSE [x |-> cx.val, y |-> cy.val, ok |-> TRUE, ret |-> "this"]

\* this.#x = K.pol(rx); this.#y = K.pol(ry); return this
\* The y expression is evaluated only after x has been stored.
Assign(c, pol, v, rx, ry) ==
  LET cx == Coerce(ScalarOf(c), pol, rx)
      cy == Coerce(ScalarOf(c), pol, ry)
  IN IF ~cx.ok THEN [x |-> v.x, y |-> v.y, ok |-> FALSE, ret |-> "none"]
     ELSE IF ~cy.ok THEN [x |-> cx.val, y |-> v.y, ok |-> FALSE, ret |-> "none"]
     ELSE [x |-> cx.val, y |-> cy.val, ok |-> TRUE, ret |-> "this"]

\* add as it would be with the default method saturating like absClamp.
add_CastSaturates(c, pol, v, a, b) ==
  Assign(c, IF pol = "Cast" THEN ClampOf(c) ELSE pol, v, Plus(v.x, a), Plus(v.y, b))

\* add as it would be with addCeil calling floor.
add_FloorForCeil(c, pol, v, a, b) ==
  Assign(c, IF pol = "Ceil" THEN "Floor" ELSE pol, v, Plus(v.x, a), Plus(v.y, b))

\* add as it would be with addFloor calling ceil.
add_CeilForFloor(c, pol, v, a, b) ==
  Assign(c, IF pol = "Floor" THEN "Ceil" ELSE pol, v, Plus(v.x, a), Plus(v.y, b))

\* add as it would be with the y line reading this.#x.
add_YFromX(c, pol, v, a, b) == Assign(c, pol, v, Plus(v.x, a), Plus(v.x, b))

\* div as it would be if a zero divisor were replaced by 1.
div_ZeroAsOne(c, pol, v, a, b) ==
  Assign(c, pol, v, Over(v.x, IF a = Num(0) THEN Num(1) ELSE a),
                    Over(v.y, IF b = Num(0) THEN Num(1) ELSE b))

\* set as it would be with every variant casting.
set_AlwaysCasts(c, pol, v, a, b) == Assign(c, "Cast", v, a, b)

set(c, pol, v, a, b) == Assign(c, pol, v, a, b)
add(c, pol, v, a, b) == Assign(c, pol, v, Plus(v.x, a), Plus(v.y, b))
\* sub as it would be with the y line reading this.#x.
sub_YFromX(c, pol, v, a, b) == Assign(c, pol, v, Minus(v.x, a), Minus(v.x, b))

sub(c, pol, v, a, b) == Assign(c, pol, v, Minus(v.x, a), Minus(v.y, b))
mul(c, pol, v, a, b) == Assign(c, pol, v, Times(v.x, a), Times(v.y, b))
div(c, pol, v, a, b) == Assign(c, pol, v, Over(v.x, a), Over(v.y, b))
\* max as it would be with y set to the argument.
max_YFromArg(c, pol, v, a, b) == Assign(c, pol, v, MathMax(v.x, a), b)

max(c, pol, v, a, b) == Assign(c, pol, v, MathMax(v.x, a), MathMax(v.y, b))
min(c, pol, v, a, b) == Assign(c, pol, v, MathMin(v.x, a), MathMin(v.y, b))
\* abs as it would be without Math.abs.
abs_NoMagnitude(c, pol, v) == Assign(c, pol, v, v.x, v.y)

\* abs() is policy "Cast", absClamp() is policy ClampOf(c).
abs(c, pol, v) == Assign(c, pol, v, MathAbs(v.x), MathAbs(v.y))

\* new K(a, b): both casts must succeed for an instance to exist.
constructor(c, a, b) ==
  LET cx == Cast(ScalarOf(c), a)
      cy == Cast(ScalarOf(c), b)
  IN IF cx.ok /\ cy.ok THEN [x |-> cx.val, y |-> cy.val, ok |-> TRUE, ret |-> "new"]
     ELSE [x |-> NaN, y |-> NaN, ok |-> FALSE, ret |-> "none"]

\* The factories as they would be without their coercion.
factory_NoCoerce(c, pol, a, b) == constructor(c, a, b)

\* static ceil/clamp/floor/round/trunc: new this(K.pol(a), K.pol(b)).
factory(c, pol, a, b) ==
  LET cx == Coerce(ScalarOf(c), pol, a)
      cy == Coerce(ScalarOf(c), pol, b)
  IN IF cx.ok /\ cy.ok THEN constructor(c, cx.val, cy.val)
     ELSE [x |-> NaN, y |-> NaN, ok |-> FALSE, ret |-> "none"]

\* copy(): new K(this.#x, this.#y)
copy(c, v) == constructor(c, v.x, v.y)

\* The x and y setters store their argument as it is.
setX(c, v, a) == [x |-> a, y |-> v.y, ok |-> TRUE, ret |-> "none"]
setY(c, v, b) == [x |-> v.x, y |-> b, ok |-> TRUE, ret |-> "none"]

\* A JSON field that is absent.
Undefined == <<>>

\* toJSON as it would be with the y line testing this.#x.
toJSON_YTestsX(c, v) ==
  IF c = "I4XY"
    THEN [x |-> IF v.x = Num(0) THEN Undefined ELSE v.x,
          y |-> IF v.x = Num(0) THEN Undefined ELSE v.y]
  ELSE [x |-> v.x, y |-> v.y]

\* toJSON(): I4XY leaves out a component that is 0, U16XY writes both.
toJSON(c, v) ==
  IF c = "I4XY"
    THEN [x |-> IF v.x = Num(0) THEN Undefined ELSE v.x,
          y |-> IF v.y = Num(0) THEN Undefined ELSE v.y]
  ELSE [x |-> v.x, y |-> v.y]

\* static fromJSON(json): new this(json.x ?? 0, json.y ?? 0)
fromJSON(c, json) ==
  constructor(c, IF json.x = Undefined THEN Num(0) ELSE json.x,
                 IF json.y = Undefined THEN Num(0) ELSE json.y)

\* eq(a, b): this.#x === a && this.#y === b; NaN equals nothing.
eq(v, a, b) == v.x = a /\ v.y = b /\ ~IsNaN(v.x) /\ ~IsNaN(v.y)

\* I4XY.dotNum: this.#x * x + this.#y * y
dotNum(v, a, b) == Plus(Times(v.x, a), Times(v.y, b))

\* I4XY.dot (policy "Cast"), dotClamp and dotNum (policy "Num").
dot(c, pol, v, a, b) ==
  IF pol = "Num" THEN Ok(dotNum(v, a, b))
  ELSE Coerce(ScalarOf(c), pol, dotNum(v, a, b))

\* Math.sqrt of a whole number m >= 0, to the precision a coercion can
\* observe: exact for a perfect square, otherwise the quarter above or below
\* the midpoint of the two whole numbers the root lies between.
SqrtOf(r) ==
  LET m == r[1]
      k == CHOOSE i \in 0..(2 * MaxSide) : i * i <= m /\ m < (i + 1) * (i + 1)
  IN IF k * k = m THEN Num(k)
     ELSE IF 4 * m < (2 * k + 1) * (2 * k + 1) THEN Norm(4 * k + 1, 4)
     ELSE Norm(4 * k + 3, 4)

\* areaNum: this.#x * this.#y
areaNum(v) == Times(v.x, v.y)

\* area as it would be with areaClamp casting.
area_ClampCasts(c, pol, v) ==
  IF pol = "Num" THEN Ok(areaNum(v))
  ELSE Coerce(ScalarOf(c), "Cast", areaNum(v))

\* area (policy "Cast"), areaClamp (policy ClampOf(c)) and areaNum.
area(c, pol, v) ==
  IF pol = "Num" THEN Ok(areaNum(v))
  ELSE Coerce(ScalarOf(c), pol, areaNum(v))

\* magnitudeNum, lenNum: Math.sqrt(this.#x * this.#x + this.#y * this.#y)
magnitudeNum(v) == SqrtOf(Plus(Times(v.x, v.x), Times(v.y, v.y)))

\* U16XY.magnitude, magnitudeClamp, magnitudeNum; I4XY.len, lenCeil,
\* lenClamp, lenFloor, lenRound, lenNum.
magnitude(c, pol, v) ==
  IF pol = "Num" THEN Ok(magnitudeNum(v))
  ELSE Coerce(ScalarOf(c), pol, magnitudeNum(v))

(***************************************************************************)
(* Overloads.  A method that takes x and y is declared twice, (x, y) and   *)
(* (xy), over one implementation (xXY, y?) that tests typeof xXY.          *)
(***************************************************************************)
\* The argument list (a, b).
Numbers(a, b) == [xXY |-> [type |-> "number", num |-> a], y |-> b]

\* The argument list ({x: a, y: b}); the parameter y is undefined.
Record(a, b) == [xXY |-> [type |-> "object", x |-> a, y |-> b], y |-> Undefined]

\* typeof xXY == 'number' ? xXY : xXY.x
ArgX(args) == IF args.xXY.type = "number" THEN args.xXY.num ELSE args.xXY.x

\* ArgY as it would be with the record branch reading xXY.x.
ArgY_RecordReadsX(args) == IF args.xXY.type = "number" THEN args.y ELSE args.xXY.x

\* typeof xXY == 'number' ? y! : xXY.y
ArgY(args) == IF args.xXY.type = "number" THEN args.y ELSE args.xXY.y

\* A mutating method of family op called with an argument list.
Invoke(op, c, pol, v, args) ==
  CASE op = "set" -> set(c, pol, v, ArgX(args), ArgY(args))
    [] op = "add" -> add(c, pol, v, ArgX(args), ArgY(args))
    [] op = "sub" -> sub(c, pol, v, ArgX(args), ArgY(args))
    [] op = "mul" -> mul(c, pol, v, ArgX(args), ArgY(args))
    [] op = "div" -> div(c, pol, v, ArgX(args), ArgY(args))
    [] op = "max" -> max(c, pol, v, ArgX(args), ArgY(args))
    [] op = "min" -> min(c, pol, v, ArgX(args), ArgY(args))

\* new K(...), K.ceil(...) and the like, I4XY's construct*(...) included,
\* which hand their argument list on unchanged.
Create(c, pol, args) ==
  IF pol = "Cast" THEN constructor(c, ArgX(args), ArgY(args))
  ELSE factory(c, pol, ArgX(args), ArgY(args))

(***************************************************************************)
(* Arguments.                                                              *)
(***************************************************************************)
\* Raw numbers: whole and in range, fractional, below the minimum and beyond
\* the maximum.
Raw(c) ==
  {Num(KindMin(ScalarOf(c)) - 1), Num(0), Num(1), Half(3),
   Half(2 * KindMax(ScalarOf(c)) + 3)}

\* The limits of the kind.
Limits(c) == {Num(KindMin(ScalarOf(c))), Num(KindMax(ScalarOf(c)))}

\* The limits of the kind and their outer neighbours.
Edges(c) ==
  LET lo == KindMin(ScalarOf(c))
      hi == KindMax(ScalarOf(c))
  IN {Num(lo - 1), Num(lo), Num(hi), Num(hi + 1)}

\* What add is given: the raw numbers and the first whole number beyond the
\* maximum.
Addends(c) == Raw(c) \cup {Num(KindMax(ScalarOf(c)) + 1)}

\* Multipliers are kept small: products stay inside TLC's integers.
Factors == {Num(-1), Num(0), Half(3), Num(2)}

\* JSON field values handed to fromJSON.
Fields(c) == {Undefined, Num(0), Num(1), Num(KindMin(ScalarOf(c)))}

(***************************************************************************)
(* State.                                                                  *)
(***************************************************************************)
VARIABLES
  cls,    \* the class under test
  heap,   \* instance id -> its private #x and #y
  cp,     \* the instance the caller's copy reference points at, 0 for none
  last,   \* the call that has just returned or thrown, NoCall when idle
  prev,   \* inside a chained expression: the call that returned the receiver
  n,      \* calls made so far
  pc,          \* bin/publish.ts: where main is
  code,        \* <<c>> once main has returned c, <<>> before that
  steps,       \* the processes main has run, each with its outcome
  file,        \* the version file on disk and the writes it has had
  releaseType, \* main's locals
  pkg,
  nextVer,
  branch,
  color,       \* colorIntToFloats: the argument
  floats       \* and what it returned, <<>> before the call

xy == <<cls, heap, cp, last, prev, n>>
release == <<pc, code, steps, file, releaseType, pkg, nextVer, branch>>
paint == <<color, floats>>
vars == <<cls, heap, cp, last, prev, n,
          pc, code, steps, file, releaseType, pkg, nextVer, branch,
          color, floats>>

\* JSON values, as far as main looks at them: the kind of value, and for an
\* object its name and version fields.
Str(s) == [type |-> "string", val |-> s]
NumField == [type |-> "number", val |-> "7"]
NoField == [type |-> "undefined", val |-> ""]
Json(kind, name, version) == [kind |-> kind, name |-> name, version |-> version]
JsonNull == Json("null", NoField, NoField)

\* No value: an absent argument, a null result, a local not assigned yet.
Null == "<null>"

\* The release script has not been started.
NoRelease ==
  /\ pc = "off" /\ code = <<>> /\ steps = <<>>
  /\ file = [text |-> JsonNull, writes |-> 0]
  /\ releaseType = Null /\ pkg = JsonNull /\ nextVer = Null /\ branch = Null

\* colorIntToFloats has not been called.
NoPaint == color = <<0, 0>> /\ floats = <<>>

\* Neither the release script nor the colour conversion is in play.
LibraryOnly == NoRelease /\ NoPaint

Refs == {"orig", "copy"}

\* The instance a reference of the caller points at.
IdOf(r) == IF r = "orig" THEN 1 ELSE cp

\* The references that point at an instance.
LiveRefs == IF cp = 0 THEN {"orig"} ELSE Refs

\* The other reference.
Other(r) == IF r = "orig" THEN "copy" ELSE "orig"

Call(op, pol, tgt, a, b, ok, ret, val) ==
  [op |-> op, pol |-> pol, tgt |-> tgt, a |-> a, b |-> b, ok |-> ok,
   ret |-> ret, val |-> val]

NoCall == Call("none", "None", "orig", NaN, NaN, TRUE, 0, Vec(NaN, NaN))

\* The families of mutating methods that take arguments.
Families == {"set", "add", "sub", "mul", "div", "max", "min"}

\* Every mutating method.
Mutators == Families \cup {"abs"}

\* const orig = new K(0, 0)
Init ==
  /\ LibraryOnly
  /\ cls \in Classes
  /\ heap = [i \in {1, 2} |-> Vec(Num(0), Num(0))]
  /\ cp = 0
  /\ last = NoCall
  /\ prev = NoCall
  /\ n = 0

\* The id a call hands back: the receiver, a new instance, or nothing.
RetId(res, id, fresh) ==
  IF ~res.ok THEN 0 ELSE IF res.ret = "this" THEN id ELSE IF res.ret = "new" THEN fresh ELSE 0

\* The caller is between calls and has calls left to make.
CanCall == last = NoCall /\ n < MaxCalls

\* A call of a mutating method or setter on reference r, with result res.
Mutate(op, pol, r, a, b, res) ==
  /\ CanCall
  /\ r \in LiveRefs
  /\ \E rs \in {res} :
       /\ heap' = [heap EXCEPT ![IdOf(r)] = Vec(rs.x, rs.y)]
       /\ last' = Call(op, pol, r, a, b, rs.ok, RetId(rs, IdOf(r), 3), Vec(rs.x, rs.y))
  /\ n' = n + 1
  /\ UNCHANGED <<release, paint, cls, cp, prev>>

Set(r, pol, a, b) == Mutate("set", pol, r, a, b, set(cls, pol, heap[IdOf(r)], a, b))
Add(r, pol, a, b) == Mutate("add", pol, r, a, b, add(cls, pol, heap[IdOf(r)], a, b))
Sub(r, pol, a, b) == Mutate("sub", pol, r, a, b, sub(cls, pol, heap[IdOf(r)], a, b))
Mul(r, pol, a, b) == Mutate("mul", pol, r, a, b, mul(cls, pol, heap[IdOf(r)], a, b))
Div(r, pol, a, b) == Mutate("div", pol, r, a, b, div(cls, pol, heap[IdOf(r)], a, b))
Max(r, pol, a, b) == Mutate("max", pol, r, a, b, max(cls, pol, heap[IdOf(r)], a, b))
Min(r, pol, a, b) == Mutate("min", pol, r, a, b, min(cls, pol, heap[IdOf(r)], a, b))
Abs(r, pol) == Mutate("abs", pol, r, NaN, NaN, abs(cls, pol, heap[IdOf(r)]))
SetX(r, a) == Mutate("x=", "None", r, a, NaN, setX(cls, heap[IdOf(r)], a))
SetY(r, b) == Mutate("y=", "None", r, NaN, b, setY(cls, heap[IdOf(r)], b))

\* copy = orig.copy()
Copy ==
  LET res == copy(cls, heap[1])
      id == RetId(res, 1, 2)
  IN
  /\ CanCall
  /\ heap' = IF id = 2 THEN [heap EXCEPT ![2] = Vec(res.x, res.y)] ELSE heap
  /\ cp' = IF id = 0 THEN cp ELSE id
  /\ last' = Call("copy", "Cast", "orig", NaN, NaN, res.ok, id, Vec(res.x, res.y))
  /\ n' = n + 1
  /\ UNCHANGED <<release, paint, cls, prev>>

\* A call that only reads, or that builds an instance the caller drops.
Query(op, pol, r, a, b, ok, val) ==
  /\ CanCall
  /\ r \in LiveRefs
  /\ last' = Call(op, pol, r, a, b, ok, 0, val)
  /\ n' = n + 1
  /\ UNCHANGED <<release, paint, cls, heap, cp, prev>>

New(a, b) ==
  LET res == constructor(cls, a, b) IN
  Query("new", "Cast", "orig", a, b, res.ok, Vec(res.x, res.y))

Factory(pol, a, b) ==
  LET res == factory(cls, pol, a, b) IN
  Query("factory", pol, "orig", a, b, res.ok, Vec(res.x, res.y))

ToJSON(r) ==
  /\ cls \in {"U16XY", "I4XY"}
  /\ Query("toJSON", "None", r, NaN, NaN, TRUE, toJSON(cls, heap[IdOf(r)]))

\* K.fromJSON(json), the json being one the caller wrote or r.toJSON().
FromJSON(r, json) ==
  LET res == fromJSON(cls, json) IN
  /\ cls = "I4XY"
  /\ Query("fromJSON", "Cast", r, json.x, json.y, res.ok, Vec(res.x, res.y))

\* The caller has looked at the outcome and goes on.
Return ==
  /\ last # NoCall
  /\ last' = NoCall
  /\ prev' = NoCall
  /\ UNCHANGED <<release, paint, cls, heap, cp, n>>

Next ==
  \/ CanCall /\ \E r \in Refs, pol \in Policies(cls), a, b \in Raw(cls) : Set(r, pol, a, b)
  \/ CanCall /\ \E r \in Refs, pol \in Policies(cls), a, b \in Addends(cls) : Add(r, pol, a, b)
  \/ CanCall /\ \E r \in Refs, pol \in Policies(cls), a, b \in Raw(cls) : Sub(r, pol, a, b)
  \/ CanCall /\ \E r \in Refs, pol \in Policies(cls), a, b \in Factors : Mul(r, pol, a, b)
  \/ CanCall /\ \E r \in Refs, pol \in Policies(cls), a, b \in Raw(cls) : Div(r, pol, a, b)
  \/ CanCall /\ \E r \in Refs, pol \in Policies(cls), a, b \in Raw(cls) : Max(r, pol, a, b)
  \/ CanCall /\ \E r \in Refs, pol \in Policies(cls), a, b \in Raw(cls) : Min(r, pol, a, b)
  \/ CanCall /\ \E r \in Refs, pol \in {"Cast", ClampOf(cls)} : Abs(r, pol)
  \/ CanCall /\ Copy
  \/ CanCall /\ \E a, b \in Edges(cls) : New(a, b)
  \/ CanCall /\ \E pol \in Factories(cls), a, b \in Edges(cls) : Factory(pol, a, b)
  \/ CanCall /\ \E r \in Refs : ToJSON(r)
  \/ CanCall /\ \E r \in Refs, x, y \in Fields(cls) : FromJSON(r, Vec(x, y))
  \/ CanCall /\ \E r \in Refs, a \in Raw(cls) : SetX(r, a)
  \/ CanCall /\ \E r \in Refs, b \in Raw(cls) : SetY(r, b)
  \/ Return

Spec == Init /\ [][Next]_vars

(***************************************************************************)
(* The chained expression orig.setP(a, b).addP(c, d): addP is called on    *)
(* what setP returned, and is not called at all when setP threw.           *)
(***************************************************************************)
ChainSet(pol, a, b) == n = 0 /\ Set("orig", pol, a, b)

ChainAdd(c, d) ==
  LET res == add(cls, last.pol, heap[last.ret], c, d) IN
  /\ last.op = "set"
  /\ last.ok
  /\ prev = NoCall
  /\ heap' = [heap EXCEPT ![last.ret] = Vec(res.x, res.y)]
  /\ last' = Call("add", last.pol, last.tgt, c, d, res.ok,
                  RetId(res, last.ret, 3), Vec(res.x, res.y))
  /\ prev' = last
  /\ n' = n + 1
  /\ UNCHANGED <<release, paint, cls, cp>>

NextChain ==
  \/ \E pol \in Policies(cls), a, b \in Raw(cls) : ChainSet(pol, a, b)
  \/ \E c, d \in Raw(cls) : ChainAdd(c, d)

SpecChain == Init /\ [][NextChain]_vars

(***************************************************************************)
(* The round trip I4XY.fromJSON(orig.toJSON()) from every representable    *)
(* I4XY.                                                                   *)
(***************************************************************************)
\* const orig = new I4XY(x, y)
InitJSON ==
  /\ LibraryOnly
  /\ cls = "I4XY"
  /\ \E x, y \in KindMin("I4")..KindMax("I4") :
       LET res == constructor(cls, Num(x), Num(y)) IN
       /\ res.ok
       /\ heap = [i \in {1, 2} |-> IF i = 1 THEN Vec(res.x, res.y) ELSE Vec(Num(0), Num(0))]
  /\ cp = 0
  /\ last = NoCall
  /\ prev = NoCall
  /\ n = 0

\* fromJSON is handed what toJSON has just returned.
Parse ==
  LET res == fromJSON(cls, last.val) IN
  /\ last.op = "toJSON"
  /\ last' = Call("fromJSON", "Cast", last.tgt, last.val.x, last.val.y, res.ok, 0,
                  Vec(res.x, res.y))
  /\ prev' = last
  /\ n' = n + 1
  /\ UNCHANGED <<release, paint, cls, heap, cp>>

NextJSON ==
  \/ n = 0 /\ ToJSON("orig")
  \/ Parse

SpecJSON == InitJSON /\ [][NextJSON]_vars

(***************************************************************************)
(* Additions to a 16-bit unsigned vector near the limits of its range:     *)
(* new U16XY(x, y).addP(a, b).                                             *)
(***************************************************************************)
\* Starting components, all U16 values.
Starts == {Num(0), Num(5), Num(10), Num(KindMax("U16"))}

\* Fractional addends: 65534.2 and -3.7, and two whole ones.
Fractions == {Tenths(655342), Tenths(-37), Num(0), Num(1)}

\* const orig = new U16XY(x, y)
InitU16 ==
  /\ LibraryOnly
  /\ cls = "U16XY"
  /\ \E x, y \in Starts :
       LET res == constructor(cls, x, y) IN
       /\ res.ok
       /\ heap = [i \in {1, 2} |-> IF i = 1 THEN Vec(res.x, res.y) ELSE Vec(Num(0), Num(0))]
  /\ cp = 0
  /\ last = NoCall
  /\ prev = NoCall
  /\ n = 0

NextU16 ==
  \/ CanCall /\ \E pol \in Policies(cls), a, b \in Fractions : Add("orig", pol, a, b)
  \/ Return

SpecU16 == InitU16 /\ [][NextU16]_vars

(***************************************************************************)
(* Both overloads side by side: orig is called with (a, b) and twin, which *)
(* starts equal to it, with ({x: a, y: b}).                                *)
(***************************************************************************)
\* A returned scalar or boolean is recorded in val.x.
Scalar(r) == Vec(r, NaN)
Bool(t) == IF t THEN Num(1) ELSE Num(0)

\* What a family is given here.
ArgsOf(op) == IF op = "mul" THEN Factors ELSE Raw(cls)

\* const orig = new K(0, 0), twin = new K(0, 0)
InitTwins ==
  /\ LibraryOnly
  /\ cls \in {"U16XY", "I4XY"}
  /\ heap = [i \in {1, 2} |-> Vec(Num(0), Num(0))]
  /\ cp = 2
  /\ last = NoCall
  /\ prev = NoCall
  /\ n = 0

\* The outcome of the (a, b) call goes to last, of the ({x, y}) call to prev.
Twice(op, pol, a, b, h1, r1, h2, r2) ==
  /\ heap' = [i \in {1, 2} |-> IF i = 1 THEN h1 ELSE h2]
  /\ last' = Call(op, pol, "orig", a, b, r1.ok, r1.ret, r1.val)
  /\ prev' = Call(op, pol, "copy", a, b, r2.ok, r2.ret, r2.val)
  /\ n' = n + 1
  /\ UNCHANGED <<release, paint, cls, cp>>

TwiceMutate(op, pol, a, b) ==
  \E res1 \in {Invoke(op, cls, pol, heap[1], Numbers(a, b))},
     res2 \in {Invoke(op, cls, pol, heap[2], Record(a, b))} :
     Twice(op, pol, a, b,
           Vec(res1.x, res1.y),
           [ok |-> res1.ok, ret |-> RetId(res1, 1, 3), val |-> Vec(res1.x, res1.y)],
           Vec(res2.x, res2.y),
           [ok |-> res2.ok, ret |-> RetId(res2, 2, 3), val |-> Vec(res2.x, res2.y)])

TwiceCreate(pol, a, b) ==
  \E res1 \in {Create(cls, pol, Numbers(a, b))},
     res2 \in {Create(cls, pol, Record(a, b))} :
     Twice("new", pol, a, b,
           heap[1], [ok |-> res1.ok, ret |-> 0, val |-> Vec(res1.x, res1.y)],
           heap[2], [ok |-> res2.ok, ret |-> 0, val |-> Vec(res2.x, res2.y)])

TwiceEq(a, b) ==
  LET n1 == Numbers(a, b)
      n2 == Record(a, b)
  IN Twice("eq", "None", a, b,
           heap[1], [ok |-> TRUE, ret |-> 0,
                     val |-> Scalar(Bool(eq(heap[1], ArgX(n1), ArgY(n1))))],
           heap[2], [ok |-> TRUE, ret |-> 0,
                     val |-> Scalar(Bool(eq(heap[2], ArgX(n2), ArgY(n2))))])

TwiceDot(pol, a, b) ==
  LET n1 == Numbers(a, b)
      n2 == Record(a, b)
      res1 == dot(cls, pol, heap[1], ArgX(n1), ArgY(n1))
      res2 == dot(cls, pol, heap[2], ArgX(n2), ArgY(n2))
  IN /\ cls = "I4XY"
     /\ Twice("dot", pol, a, b,
              heap[1], [ok |-> res1.ok, ret |-> 0, val |-> Scalar(res1.val)],
              heap[2], [ok |-> res2.ok, ret |-> 0, val |-> Scalar(res2.val)])

NextTwins ==
  \/ CanCall /\ \E op \in Families, pol \in Policies(cls) :
                  \E a, b \in ArgsOf(op) : TwiceMutate(op, pol, a, b)
  \/ CanCall /\ \E pol \in Policies(cls), a, b \in Raw(cls) : TwiceCreate(pol, a, b)
  \/ CanCall /\ \E a, b \in Raw(cls) : TwiceEq(a, b)
  \/ CanCall /\ \E pol \in {"Cast", "Clamp", "Num"}, a, b \in Raw(cls) : TwiceDot(pol, a, b)
  \/ Return

SpecTwins == InitTwins /\ [][NextTwins]_vars

(***************************************************************************)
(* The derived scalars of a valid vector: area, magnitude (len) and dot,   *)
(* each in its default, Clamp and Num variant.                             *)
(***************************************************************************)
\* Components of the vectors whose scalars are taken: every I4, and U16s that
\* give whole and fractional roots and products inside and beyond the range.
Sides(c) ==
  IF c = "I4XY" THEN {Num(i) : i \in KindMin("I4")..KindMax("I4")}
  ELSE {Num(0), Num(2), Num(3), Num(4), Num(MaxSide), Num(KindMax("U16"))}

\* The variants of a derived scalar.
Variants(c) == {"Cast", ClampOf(c), "Num"}

\* The variants of magnitude (U16XY) and len (I4XY).
Lengths(c) ==
  IF c = "I4XY" THEN {"Cast", "Ceil", "Clamp", "Floor", "Round", "Num"}
  ELSE {"Cast", "Trunc", "Num"}

\* A derived scalar by name.
Derived(op, c, pol, v, a, b) ==
  CASE op = "area" -> area(c, pol, v)
    [] op = "magnitude" -> magnitude(c, pol, v)
    [] op = "dot" -> dot(c, pol, v, a, b)

\* const orig = new K(x, y)
InitScalars ==
  /\ LibraryOnly
  /\ cls \in {"U16XY", "I4XY"}
  /\ \E x, y \in Sides(cls) :
       LET res == constructor(cls, x, y) IN
       \* one component at most is beyond MaxSide: the area stays inside
       \* TLC's integers
       /\ AbsInt(x[1]) <= MaxSide \/ AbsInt(y[1]) <= MaxSide
       /\ res.ok
       /\ heap = [i \in {1, 2} |-> IF i = 1 THEN Vec(res.x, res.y) ELSE Vec(Num(0), Num(0))]
  /\ cp = 0
  /\ last = NoCall
  /\ prev = NoCall
  /\ n = 0

Area(pol) ==
  \E res \in {Derived("area", cls, pol, heap[1], NaN, NaN)} :
    Query("area", pol, "orig", NaN, NaN, res.ok, Scalar(res.val))

\* magnitude* of U16XY, len* of I4XY.
Magnitude(pol) ==
  /\ AbsInt(heap[1].x[1]) <= MaxSide /\ AbsInt(heap[1].y[1]) <= MaxSide
  /\ \E res \in {Derived("magnitude", cls, pol, heap[1], NaN, NaN)} :
       Query("magnitude", pol, "orig", NaN, NaN, res.ok, Scalar(res.val))

Dot(pol, a, b) ==
  /\ cls = "I4XY"
  /\ \E res \in {Derived("dot", cls, pol, heap[1], a, b)} :
       Query("dot", pol, "orig", a, b, res.ok, Scalar(res.val))

NextScalars ==
  \/ CanCall /\ \E pol \in Variants(cls) : Area(pol)
  \/ CanCall /\ \E pol \in Lengths(cls) : Magnitude(pol)
  \/ CanCall /\ \E pol \in Variants(cls), a, b \in Raw(cls) : Dot(pol, a, b)
  \/ Return

SpecScalars == InitScalars /\ [][NextScalars]_vars

(***************************************************************************)
(* abs() and absClamp() of a valid vector: new K(x, y).abs().              *)
(***************************************************************************)
NextAbs ==
  \/ CanCall /\ \E pol \in {"Cast", ClampOf(cls)} : Abs("orig", pol)
  \/ Return

SpecAbs == InitScalars /\ [][NextAbs]_vars

(***************************************************************************)
(* max and min of a valid vector with arguments that are scalar values of  *)
(* the kind: new K(x, y).max(a, b), new K(x, y).min(a, b).                 *)
(***************************************************************************)
\* Arguments that are scalar values of the kind: the limits and values
\* between them.
ScalarArgs(c) ==
  {r \in Limits(c) \cup {Num(-1), Num(0), Num(3), Num(MaxSide)} :
     IsScalar(ScalarOf(c), r)}

NextMinMax ==
  \/ CanCall /\ \E a, b \in ScalarArgs(cls) : Max("orig", "Cast", a, b)
  \/ CanCall /\ \E a, b \in ScalarArgs(cls) : Min("orig", "Cast", a, b)
  \/ Return

SpecMinMax == InitScalars /\ [][NextMinMax]_vars

(***************************************************************************)
(* I4XY built and set from any number: new I4XY(a, b), I4XY.clamp(a, b),   *)
(* set(a, b), setClamp(a, b).                                              *)
(***************************************************************************)
\* Numbers of every sort: NaN, the infinities, beyond and at the limits,
\* fractional and whole.
AnyNumber(c) ==
  {NaN, NegInf, PosInf, Half(-3), Half(3), Num(0)} \cup Edges(c)

InitI4 ==
  /\ LibraryOnly
  /\ cls = "I4XY"
  /\ heap = [i \in {1, 2} |-> Vec(Num(0), Num(0))]
  /\ cp = 0
  /\ last = NoCall
  /\ prev = NoCall
  /\ n = 0

NextI4 ==
  \/ CanCall /\ \E pol \in {"Cast", "Clamp"}, a, b \in AnyNumber(cls) : Set("orig", pol, a, b)
  \/ CanCall /\ \E a, b \in AnyNumber(cls) : New(a, b)
  \/ CanCall /\ \E a, b \in AnyNumber(cls) : Factory("Clamp", a, b)
  \/ Return

SpecI4 == InitI4 /\ [][NextI4]_vars

(***************************************************************************)
(* Two vectors of one class, each given the same method once with         *)
(* arguments of its own: orig.opP(a1, b1) and other.opP(a2, b2).           *)
(***************************************************************************)
\* What the two are given.
PairArgs == {Num(0), Num(1), Half(3)}

\* const orig = new K(x1, y1), other = new K(x2, y2)
InitPair ==
  /\ LibraryOnly
  /\ cls \in {"U16XY", "I4XY"}
  /\ heap \in [{1, 2} -> {Vec(x, y) : x, y \in Limits(cls) \cup {Num(1)}}]
  /\ \A i \in {1, 2} : constructor(cls, heap[i].x, heap[i].y).ok
  /\ cp = 2
  /\ last = NoCall
  /\ prev = NoCall
  /\ n = 0

\* The outcome of the call on orig goes to last, on other to prev.
Pair(op, pol, a1, b1, res1, a2, b2, res2) ==
  \E r1 \in {res1}, r2 \in {res2} :
    /\ heap' = [i \in {1, 2} |-> IF i = 1 THEN Vec(r1.x, r1.y) ELSE Vec(r2.x, r2.y)]
    /\ last' = Call(op, pol, "orig", a1, b1, r1.ok, RetId(r1, 1, 3), Vec(r1.x, r1.y))
    /\ prev' = Call(op, pol, "copy", a2, b2, r2.ok, RetId(r2, 2, 3), Vec(r2.x, r2.y))
    /\ n' = n + 1
    /\ UNCHANGED <<release, paint, cls, cp>>

PairMutate(op, pol, a1, b1, a2, b2) ==
  Pair(op, pol, a1, b1, Invoke(op, cls, pol, heap[1], Numbers(a1, b1)),
                a2, b2, Invoke(op, cls, pol, heap[2], Numbers(a2, b2)))

PairAbs(pol) ==
  Pair("abs", pol, NaN, NaN, abs(cls, pol, heap[1]), NaN, NaN, abs(cls, pol, heap[2]))

NextPair ==
  \/ n = 0 /\ \E op \in Families, pol \in Policies(cls) :
                \E a1, b1, a2, b2 \in PairArgs : PairMutate(op, pol, a1, b1, a2, b2)
  \/ n = 0 /\ \E pol \in {"Cast", ClampOf(cls)} : PairAbs(pol)
  \/ Return

SpecPair == InitPair /\ [][NextPair]_vars

(***************************************************************************)
(* Claims.                                                                 *)
(***************************************************************************)
\* The component values that are scalar values of the class's kind.
Valid(v) == IsScalar(ScalarOf(cls), v.x) /\ IsScalar(ScalarOf(cls), v.y)

\* C1: at every point where a call has returned or thrown, x and y of every
\* vector are whole numbers inside the range of the kind.
C1_AlwaysValid == \A r \in LiveRefs : Valid(heap[IdOf(r)])

\* C2: a mutating method that throws leaves x and y as they were before the
\* call; no call ends with one component updated and the other not.
C2_AllOrNothing ==
  [][(last'.op \in Mutators /\ ~last'.ok) => heap' = heap]_vars

\* C3: div(a, b) throws whenever a = 0 or b = 0, also when the dividend is 0.
C3_DivByZeroThrows ==
  (last.op = "div" /\ last.pol = "Cast" /\ (last.a = Num(0) \/ last.b = Num(0)))
    => ~last.ok

\* C3 witness: div(0, b) has thrown on a vector whose x, the dividend, is 0.
C3_Witness ==
  /\ last.op = "div" /\ last.pol = "Cast" /\ last.a = Num(0) /\ last.b = Num(1)
  /\ heap[IdOf(last.tgt)].x = Num(0)
  /\ ~last.ok

\* C4: every policy variant of division throws when a divisor component is 0.
C4_PolicyDivByZeroThrows ==
  (last.op = "div" /\ last.pol # "Cast" /\ (last.a = Num(0) \/ last.b = Num(0)))
    => ~last.ok

\* C5: copy() returns a new vector with the receiver's x and y, and a later
\* mutating call or setter assignment on one of the two leaves the other as
\* it was.
C5_CopyEqualIndependent ==
  [][/\ (last = NoCall /\ last'.op = "copy")
          => /\ last'.ok
             /\ last'.ret = 2
             /\ heap'[2] = heap[1]
             /\ eq(heap'[1], heap'[2].x, heap'[2].y)
     /\ (last = NoCall /\ cp # 0 /\ last'.op \in Mutators \cup {"x=", "y="})
          => heap'[IdOf(Other(last'.tgt))] = heap[IdOf(Other(last'.tgt))]]_vars

\* C6: a mutating method that completes returns the instance it was called on.
C6_ReturnsThis ==
  (last.op \in Mutators /\ last.ok) => last.ret = IdOf(last.tgt)

\* C6 witness: add has completed, changed the vector and returned it.
C6_Witness ==
  /\ last.op = "add" /\ last.ok /\ last.ret = 1
  /\ heap[1] = Vec(Num(1), Num(1))

\* C7: for every representable I4XY v, fromJSON(v.toJSON()) succeeds and eq(v)
\* holds of it; toJSON omits a field exactly when the component is 0 and
\* fromJSON reads a missing field as 0.
C7_JSONRoundTrip ==
  /\ last.op = "toJSON"
       => /\ last.val.x = (IF heap[1].x = Num(0) THEN Undefined ELSE heap[1].x)
          /\ last.val.y = (IF heap[1].y = Num(0) THEN Undefined ELSE heap[1].y)
  /\ last.op = "fromJSON"
       => /\ last.ok
          /\ eq(last.val, heap[1].x, heap[1].y)
          /\ last.a = Undefined => last.val.x = Num(0)
          /\ last.b = Undefined => last.val.y = Num(0)

\* C7 witness: the round trip of (0, -8), whose x is left out of the JSON.
C7_Witness ==
  /\ last.op = "fromJSON" /\ prev.op = "toJSON"
  /\ last.a = Undefined /\ last.b = Num(-8)
  /\ last.ok /\ last.val = Vec(Num(0), Num(-8))

\* A vector freshly constructed under policy pol.
Fresh(c, pol, x, y) ==
  IF pol = "Cast" THEN constructor(c, x, y) ELSE factory(c, pol, x, y)

\* orig.setP(a, b).addP(c, d) agrees with a vector constructed under P from
\* (a + c, b + d), for a and b in S: both succeed with equal x and y, or both
\* fail.
ChainAgrees(S) ==
  /\ (last.op = "add" /\ prev.op = "set" /\ prev.a \in S /\ prev.b \in S)
       => LET f == Fresh(cls, last.pol, Plus(prev.a, last.a), Plus(prev.b, last.b))
          IN IF last.ok THEN f.ok /\ heap[1] = Vec(f.x, f.y) ELSE ~f.ok
  /\ (last.op = "set" /\ ~last.ok /\ last.a \in S /\ last.b \in S)
       => \A c, d \in Raw(cls) :
            ~Fresh(cls, last.pol, Plus(last.a, c), Plus(last.b, d)).ok

\* C8 as stated: for all raw numbers a, b, c, d and every policy P,
\* setP(a, b).addP(c, d) agrees with the vector constructed under P from
\* (a + c, b + d).
C8_ChainEqualsFresh == ChainAgrees(Raw(cls))

\* C8 as amended: the same for a and b that are scalar values of the kind
\* (whole and in range), and all raw c, d.
C8_ChainEqualsFreshOnScalars ==
  ChainAgrees({r \in Raw(cls) : IsScalar(ScalarOf(cls), r)})

\* C8 witness: setCeil(1, 0).addCeil(1.5, 1.5) has left (3, 2).
C8_Witness ==
  /\ last.op = "add" /\ prev.op = "set" /\ last.pol = "Ceil"
  /\ prev.a = Num(1) /\ prev.b = Num(0) /\ last.a = Half(3) /\ last.b = Half(3)
  /\ last.ok /\ heap[1] = Vec(Num(3), Num(2))

\* The limit next to an edge value.
Nearest(c, e) ==
  LET lo == KindMin(ScalarOf(c))
      hi == KindMax(ScalarOf(c))
  IN IF e = Num(lo - 1) THEN Num(lo) ELSE IF e = Num(hi + 1) THEN Num(hi) ELSE e

\* C9: the constructor succeeds on min and max and fails on min-1 and max+1;
\* every factory given min-1 or max+1 succeeds with the nearest limit.
C9_Boundary ==
  /\ (last.op = "new" /\ last.a \in Edges(cls) /\ last.b \in Edges(cls))
       => IF last.a \in Limits(cls) /\ last.b \in Limits(cls)
            THEN last.ok /\ last.val = Vec(last.a, last.b)
            ELSE ~last.ok
  /\ (last.op = "factory" /\ last.a \in Edges(cls) /\ last.b \in Edges(cls))
       => /\ last.ok
          /\ last.val = Vec(Nearest(cls, last.a), Nearest(cls, last.b))

\* C9 witness: a factory given (max+1, min-1) has returned (max, min).
C9_Witness ==
  /\ last.op = "factory" /\ last.ok
  /\ last.a = Num(KindMax(ScalarOf(cls)) + 1)
  /\ last.b = Num(KindMin(ScalarOf(cls)) - 1)
  /\ last.val = Vec(Num(KindMax(ScalarOf(cls))), Num(KindMin(ScalarOf(cls))))

\* The raw result of a method family on one component.
RawResult(op, cur, arg) ==
  CASE op = "set" -> arg
    [] op = "add" -> Plus(cur, arg)
    [] op = "sub" -> Minus(cur, arg)
    [] op = "mul" -> Times(cur, arg)
    [] op = "div" -> Over(cur, arg)
    [] op = "max" -> MathMax(cur, arg)
    [] op = "min" -> MathMin(cur, arg)
    [] op = "abs" -> MathAbs(cur)

\* The rounding of a policy.
Rounded(pol, r) ==
  CASE pol = "Ceil" -> CeilOf(r)
    [] pol = "Floor" -> FloorOf(r)
    [] pol = "Round" -> RoundOf(r)
    [] pol = "Trunc" -> TruncOf(r)

\* The 4-bit unsigned example of the interface documentation.
U4Example(pol) ==
  CASE pol = "Ceil" -> Vec(Num(2), Num(15))
    [] pol = "Floor" -> Vec(Num(1), Num(15))
    [] pol = "Round" -> Vec(Num(2), Num(15))
    [] pol = "Trunc" -> Vec(Num(1), Num(15))

\* C10: opP(a, b) for P in Ceil, Floor, Round, Trunc sets each component to
\* saturate(P(component op argument)), rounding first and saturating second;
\* on the 4-bit unsigned (0, 0), addP(1.5, 16.5) gives (2, 15), (1, 15),
\* (2, 15), (1, 15) for Ceil, Floor, Round, Trunc.
C10_RoundThenSaturate ==
  [][(last = NoCall /\ last'.op \in Families
        /\ last'.pol \in {"Ceil", "Floor", "Round", "Trunc"})
      => LET id == IdOf(last'.tgt)
             k == ScalarOf(cls)
         IN /\ \A rx \in {RawResult(last'.op, heap[id].x, last'.a)},
                  ry \in {RawResult(last'.op, heap[id].y, last'.b)} :
                 (IsFinite(rx) /\ IsFinite(ry))
                   => /\ last'.ok
                      /\ \A px \in {Rounded(last'.pol, rx)},
                            py \in {Rounded(last'.pol, ry)} :
                           /\ heap'[id].x = Saturate(k, px)
                           /\ heap'[id].y = Saturate(k, py)
            /\ (cls = "U4XY" /\ last'.op = "add" /\ heap[id] = Vec(Num(0), Num(0))
                  /\ last'.a = Half(3) /\ last'.b = Half(33))
                 => heap'[id] = U4Example(last'.pol)]_vars

\* C10 witness: addFloor(1.5, 16.5) on the 4-bit unsigned (0, 0) has left
\* (1, 15).
C10_Witness ==
  /\ cls = "U4XY" /\ n = 1
  /\ last.op = "add" /\ last.pol = "Floor" /\ last.ok
  /\ last.a = Half(3) /\ last.b = Half(33)
  /\ heap[1] = Vec(Num(1), Num(15))

\* C11: a default (Cast) method throws whenever the raw result of either
\* component is outside the range of the kind or is not whole, and otherwise
\* stores the raw results as they are, neither rounded nor saturated; on the
\* 4-bit unsigned (0, 0), add(0, 16) throws.
C11_CastThrowsOutOfRange ==
  [][(last = NoCall /\ last'.op \in Mutators /\ last'.pol = "Cast")
      => LET id == IdOf(last'.tgt)
             k == ScalarOf(cls)
         IN /\ \A rx \in {RawResult(last'.op, heap[id].x, last'.a)},
                  ry \in {RawResult(last'.op, heap[id].y, last'.b)} :
                 IF IsScalar(k, rx) /\ IsScalar(k, ry)
                   THEN last'.ok /\ heap'[id] = Vec(rx, ry)
                   ELSE ~last'.ok
            /\ (cls = "U4XY" /\ last'.op = "add" /\ heap[id] = Vec(Num(0), Num(0))
                  /\ last'.a = Num(0) /\ last'.b = Num(16))
                 => ~last'.ok]_vars

\* C11 witness: add(0, 16) on the 4-bit unsigned (0, 0) has thrown.
C11_Witness ==
  /\ cls = "U4XY" /\ n = 1
  /\ last.op = "add" /\ last.pol = "Cast" /\ ~last.ok
  /\ last.a = Num(0) /\ last.b = Num(16)
  /\ heap[1] = Vec(Num(0), Num(0))

\* new U16XY(5, 10).addCeil(65534.2, -3.7) completes and leaves v.
AddCeilGives(v) ==
  (/\ last = NoCall /\ heap[1] = Vec(Num(5), Num(10))
   /\ last'.op = "add" /\ last'.pol = "Ceil"
   /\ last'.a = Tenths(655342) /\ last'.b = Tenths(-37))
    => (last'.ok /\ heap'[1] = v)

\* C12 as stated: new U16XY(5, 10).addCeil(65534.2, -3.7) leaves the vector
\* at (65535, 6).
C12_AddCeilExample == [][AddCeilGives(Vec(Num(65535), Num(6)))]_vars

\* C12 as amended: new U16XY(5, 10).addCeil(65534.2, -3.7) leaves the vector
\* at (65535, 7): 10 - 3.7 = 6.3 and its ceiling is 7.
C12_AddCeilExampleSeven == [][AddCeilGives(Vec(Num(65535), Num(7)))]_vars

\* C12 witness: addCeil(65534.2, -3.7), the first call, has left (65535, 7);
\* among the starting values only y = 10 gives 7.
C12_Witness ==
  /\ n = 1 /\ last.op = "add" /\ last.pol = "Ceil" /\ last.ok
  /\ last.a = Tenths(655342) /\ last.b = Tenths(-37)
  /\ heap[1] = Vec(Num(65535), Num(7))

\* C13: a constructor, factory, mutating method, eq or dot called with two
\* numbers (a, b) and called with one record {x: a, y: b} from the same
\* starting state have the same outcome: both fail, or both succeed with the
\* same x and y, the same returned value and, for a mutating method, each
\* returning its receiver.
C13_OverloadsAgree ==
  last # NoCall
    => /\ prev.op = last.op /\ prev.a = last.a /\ prev.b = last.b
       /\ prev.ok = last.ok
       /\ prev.val = last.val
       /\ heap[2] = heap[1]
       /\ (prev.ret = IdOf(prev.tgt)) = (last.ret = IdOf(last.tgt))
       /\ (prev.ret = 0) = (last.ret = 0)

\* C13 witness: addCeil(1, 1.5) and addCeil({x: 1, y: 1.5}) have both left
\* (1, 2) and returned their receivers.
C13_Witness ==
  /\ last.op = "add" /\ last.pol = "Ceil" /\ last.a = Num(1) /\ last.b = Half(3)
  /\ last.ok /\ prev.ok /\ last.ret = 1 /\ prev.ret = 2
  /\ heap[1] = Vec(Num(1), Num(2)) /\ heap[2] = Vec(Num(1), Num(2))

\* The uncoerced value of a derived scalar: x * y, sqrt(x^2 + y^2),
\* x * a + y * b.
Uncoerced(op, v, a, b) ==
  CASE op = "area" -> Times(v.x, v.y)
    [] op = "magnitude" -> SqrtOf(Plus(Times(v.x, v.x), Times(v.y, v.y)))
    [] op = "dot" -> Plus(Times(v.x, a), Times(v.y, b))

\* C14: on a valid vector the Num variant of area, magnitude (len) and dot
\* never fails and returns the uncoerced result; the Clamp variant never
\* fails and returns a whole number inside the range; the default variant
\* returns the uncoerced result when that is whole and in range, and then the
\* Clamp variant returns the same, and fails otherwise.
C14_DerivedScalars ==
  last.op \in {"area", "magnitude", "dot"}
    => \A r \in {Uncoerced(last.op, heap[1], last.a, last.b)} :
         /\ last.pol = "Num" => (last.ok /\ last.val.x = r)
         /\ last.pol = ClampOf(cls)
              => (last.ok /\ IsScalar(ScalarOf(cls), last.val.x))
         /\ last.pol = "Cast"
              => IF IsScalar(ScalarOf(cls), r)
                   THEN /\ last.ok
                        /\ last.val.x = r
                        /\ Derived(last.op, cls, ClampOf(cls), heap[1], last.a, last.b)
                             = Ok(r)
                   ELSE ~last.ok

\* C14 witness: areaClamp of the U16XY (65535, 2) has returned 65535, where
\* the area is 131070.
C14_Witness ==
  /\ cls = "U16XY" /\ heap[1] = Vec(Num(65535), Num(2))
  /\ last.op = "area" /\ last.pol = "Trunc" /\ last.ok
  /\ last.val.x = Num(65535)

\* C15: U16XY and I4XY each offer set, add, sub, mul, div, min and max in the
\* five variants default (Cast), Ceil, Floor, Round and Trunc, and the
\* class-level factories ceil, floor, round, trunc and clamp.
C15_FullSurface ==
  cls \in {"U16XY", "I4XY"}
    => /\ {"Cast", "Ceil", "Floor", "Round", "Trunc"} \subseteq Policies(cls)
       /\ {"Ceil", "Floor", "Round", "Trunc", "Clamp"} \subseteq Factories(cls)

\* r lies inside [min, max] of kind k.
Inside(k, r) == ~IsNaN(r) /\ ~Lt(r, Num(KindMin(k))) /\ ~Lt(Num(KindMax(k)), r)

\* I4XY.clamp(a, b) and setClamp(a, b) with a and b for which ok(a), ok(b)
\* hold never fail and leave each component inside [-8, 7]; clamp, setClamp,
\* set and the constructor given whole a and b inside [-8, 7] give (a, b).
ClampTotal(ok(_)) ==
  /\ (/\ last.op \in {"set", "factory"} /\ last.pol = "Clamp"
      /\ ok(last.a) /\ ok(last.b))
       => /\ last.ok
          /\ Inside("I4", last.val.x) /\ Inside("I4", last.val.y)
          /\ last.op = "set" => heap[1] = last.val
  /\ (/\ last.op \in {"set", "factory", "new"}
      /\ IsScalar("I4", last.a) /\ IsScalar("I4", last.b))
       => /\ last.ok
          /\ last.val = Vec(last.a, last.b)
          /\ last.op = "set" => heap[1] = last.val

IsAny(r) == TRUE
IsNotNaN(r) == ~IsNaN(r)

C17_XThenY ==
  [][(last = NoCall /\ last'.op \in Mutators)
      => LET id == IdOf(last'.tgt)
             k == ScalarOf(cls)
         IN \A cx \in {Coerce(k, last'.pol, RawResult(last'.op, heap[id].x, last'.a))},
               cy \in {Coerce(k, last'.pol, RawResult(last'.op, heap[id].y, last'.b))} :
              /\ ~cx.ok => (~last'.ok /\ heap' = heap)
              /\ (cx.ok /\ ~cy.ok)
                   => (~last'.ok /\ heap'[id] = Vec(cx.val, heap[id].y))
              /\ (cx.ok /\ cy.ok)
                   => (last'.ok /\ heap'[id] = Vec(cx.val, cy.val))
              /\ (/\ last'.op = "div" /\ last'.pol = "Cast" /\ last'.a = Num(0)
                  /\ Valid(heap[id]))
                   => (~last'.ok /\ heap' = heap)]_vars

\* C17 witness: div(0, 1), the second call, has thrown on (1, 1) and left it
\* (1, 1).
C17_Witness ==
  /\ n = 2 /\ last.op = "div" /\ last.pol = "Cast" /\ ~last.ok
  /\ last.a = Num(0) /\ last.b = Num(1) /\ last.tgt = "orig"
  /\ heap[1] = Vec(Num(1), Num(1))

\* Two vectors that agree on a component and are given the same argument for
\* it hold the same value in it after the call: for y whenever both(ok1, ok2)
\* holds of the two outcomes, for x always.
Independent(both(_, _)) ==
  (last = NoCall /\ last'.op \in Mutators)
    => /\ (heap[1].y = heap[2].y /\ last'.b = prev'.b /\ both(last'.ok, prev'.ok))
            => heap'[1].y = heap'[2].y
       /\ (heap[1].x = heap[2].x /\ last'.a = prev'.a)
            => heap'[1].x = heap'[2].x

Always(ok1, ok2) == TRUE
BothComplete(ok1, ok2) == ok1 /\ ok2

Magn(r) == Num(AbsInt(r[1]))
MagnClamped(r) == IF r = Num(-8) THEN Num(7) ELSE Magn(r)

\* C19: on a valid I4XY abs() fails when a component is -8 and otherwise
\* leaves (|x|, |y|), and absClamp() never fails and leaves (|x|, |y|) with 7
\* for a component that was -8; on a valid U16XY abs() and absClamp() never
\* fail and leave the vector unchanged.
C19_Abs ==
  [][(last = NoCall /\ last'.op = "abs" /\ Valid(heap[1]))
      => /\ (cls = "I4XY" /\ last'.pol = "Cast")
              => IF heap[1].x = Num(-8) \/ heap[1].y = Num(-8)
                   THEN ~last'.ok
                   ELSE last'.ok /\ heap'[1] = Vec(Magn(heap[1].x), Magn(heap[1].y))
         /\ (cls = "I4XY" /\ last'.pol = "Clamp")
              => /\ last'.ok
                 /\ heap'[1] = Vec(MagnClamped(heap[1].x), MagnClamped(heap[1].y))
         /\ cls = "U16XY" => (last'.ok /\ heap'[1] = heap[1])]_vars

\* C19 witness: abs() has thrown on the I4XY (-8, 3), whose x it could not
\* replace.
C19_Witness ==
  /\ cls = "I4XY" /\ last.op = "abs" /\ last.pol = "Cast" /\ ~last.ok
  /\ heap[1] = Vec(Num(-8), Num(3))

\* The larger and the smaller of two numbers, neither NaN.
Larger(p, q) == IF Lt(p, q) THEN q ELSE p
Smaller(p, q) == IF Lt(q, p) THEN q ELSE p

\* C20: on a valid vector, max(a, b) and min(a, b) with whole in-range a and
\* b never fail and set each component to the larger (smaller) of itself and
\* the argument; max never lowers and min never raises a component, and the
\* same call made again leaves the vector as the first call left it.
C20_MinMax ==
  [][(/\ last = NoCall /\ last'.op \in {"max", "min"} /\ last'.pol = "Cast"
      /\ Valid(heap[1]) /\ Valid(Vec(last'.a, last'.b)))
      => /\ last'.ok
         /\ last'.op = "max"
              => /\ heap'[1] = Vec(Larger(heap[1].x, last'.a), Larger(heap[1].y, last'.b))
                 /\ ~Lt(heap'[1].x, heap[1].x) /\ ~Lt(heap'[1].y, heap[1].y)
                 /\ \A again \in {max(cls, "Cast", heap'[1], last'.a, last'.b)} :
                      again.ok /\ Vec(again.x, again.y) = heap'[1]
         /\ last'.op = "min"
              => /\ heap'[1] = Vec(Smaller(heap[1].x, last'.a), Smaller(heap[1].y, last'.b))
                 /\ ~Lt(heap[1].x, heap'[1].x) /\ ~Lt(heap[1].y, heap'[1].y)
                 /\ \A again \in {min(cls, "Cast", heap'[1], last'.a, last'.b)} :
                      again.ok /\ Vec(again.x, again.y) = heap'[1]]_vars

\* C20 witness: max(3, -8), the first call, has left the I4XY (3, 7): x was
\* at most 3, and y = 7 was kept over -8.
C20_Witness ==
  /\ cls = "I4XY" /\ n = 1 /\ last.op = "max" /\ last.pol = "Cast" /\ last.ok
  /\ last.a = Num(3) /\ last.b = Num(-8)
  /\ heap[1] = Vec(Num(3), Num(7))

(***************************************************************************)
(* The members that only read the receiver.                                *)
(***************************************************************************)
\* The members of K that assign neither #x nor #y; construct* is I4XY's.
NonMutating(c) ==
  {"eq", "area", "magnitude", "copy", "toJSON", "toNumXY", "toString", "x", "y"}
    \union (IF c = "I4XY" THEN {"dot", "construct"} ELSE {})

\* The coercions construct* comes in.
Constructs == {"Cast", "Ceil", "Clamp", "Floor", "Round"}

Eq(a, b) ==
  Query("eq", "None", "orig", a, b, TRUE, Scalar(Bool(eq(heap[1], a, b))))

\* new NumXY(this.#x, this.#y): NumXY keeps any number as it is.
ToNumXY ==
  Query("toNumXY", "None", "orig", NaN, NaN, TRUE, Vec(heap[1].x, heap[1].y))

\* `(${this.#x}, ${this.#y})`: val holds the two numbers the template prints.
ToText ==
  Query("toString", "None", "orig", NaN, NaN, TRUE, Vec(heap[1].x, heap[1].y))

GetX == Query("x", "None", "orig", NaN, NaN, TRUE, Scalar(heap[1].x))

GetY == Query("y", "None", "orig", NaN, NaN, TRUE, Scalar(heap[1].y))

\* construct* as it would be if it went through this.set*: the receiver moves.
Construct_SetsReceiver(pol, a, b) ==
  /\ cls = "I4XY"
  /\ Mutate("construct", pol, "orig", a, b, set(cls, pol, heap[1], a, b))

\* orig.construct<pol>(a, b): a new instance, built from the arguments only.
Construct(pol, a, b) ==
  /\ cls = "I4XY"
  /\ \E res \in {Create(cls, pol, Numbers(a, b))} :
       Query("construct", pol, "orig", a, b, res.ok, Vec(res.x, res.y))

\* One call on each receiver: a reader leaves nothing behind for a second call
\* to see.
NextRead ==
  \/ n = 0 /\ \E a, b \in Raw(cls) : Eq(a, b)
  \/ n = 0 /\ \E pol \in Variants(cls) : Area(pol)
  \/ n = 0 /\ \E pol \in Lengths(cls) : Magnitude(pol)
  \/ n = 0 /\ \E pol \in Variants(cls), a, b \in Raw(cls) : Dot(pol, a, b)
  \/ n = 0 /\ Copy
  \/ n = 0 /\ ToJSON("orig")
  \/ n = 0 /\ ToNumXY
  \/ n = 0 /\ ToText
  \/ n = 0 /\ GetX
  \/ n = 0 /\ GetY
  \/ n = 0 /\ \E pol \in Constructs, a, b \in Raw(cls) : Construct(pol, a, b)
  \/ Return

SpecRead == InitScalars /\ [][NextRead]_vars

\* C21: a call of a non-mutating member of U16XY or I4XY leaves the
\* receiver's x and y as they were, whether the call returns or throws.
C21_ReadersFrame ==
  [][(last = NoCall /\ last' # NoCall /\ last'.op \in NonMutating(cls))
       => heap'[IdOf(last'.tgt)] = heap[IdOf(last'.tgt)]]_vars

\* area or construct has thrown, and the receiver, not the zero vector, is
\* still there.
C21_Witness ==
  /\ last # NoCall
  /\ last.op \in {"area", "construct"} /\ ~last.ok
  /\ heap[1].x # Num(0) /\ heap[1].y # Num(0)

(***************************************************************************)
(* The release script, bin/publish.ts: one action for each statement of    *)
(* main that reads the outside world, the checks and the return that       *)
(* follow it included.  What a process prints is a sequence of words.      *)
(***************************************************************************)
releaseTypes ==
  {"pre", "major", "premajor", "minor", "preminor", "patch", "prepatch",
   "prerelease"}

isReleaseType(str) == str \in releaseTypes

\* typeof val
typeOf(val) == IF val.kind \in {"null", "array", "object"} THEN "object" ELSE val.kind

\* Obj.is(val): val != null && typeof val === 'object'
is(val) == val.kind # "null" /\ typeOf(val) = "object"

isPackage(val) ==
  IF ~is(val) THEN FALSE
  ELSE val.version.type = "string" /\ val.name.type = "string"

\* Str.isBlank(text)
isBlank(text) == text = <<>>

\* text.trim() of an output that is one word at most.
Trim(text) == IF text = <<>> THEN "" ELSE text[1]

\* text.trim().split(/\s+/): the words, or one empty word when there is none.
Split(text) == IF text = <<>> THEN <<"">> ELSE text

\* `v${nextVer}` as it would be without the v.
TagOf_NoPrefix(ver) == ver

\* `v${nextVer}`
TagOf(ver) == "v" \o ver

\* Deno.args[0]
Args == {Null, "bogus", "patch", "major"}

\* What the version file can hold when main starts; Json("invalid", ..) is a
\* text JSON.parse throws on.
Configs ==
  {Json(k, NoField, NoField) : k \in {"invalid", "null", "number", "array"}}
    \cup {Json("object", nm, v) : nm \in {Str("ooz"), NoField},
                                  v \in {Str("1.0.0"), NumField, NoField}}

\* What semver.inc can return other than null.
NextVers == {"1.0.1", "2.0.0"}

\* What a process can print.
Outputs(cmd) ==
  CASE cmd = "git status -z" -> {<<>>, <<"M">>}
    [] cmd = "git rev-parse --abbrev-ref @" -> {<<>>, <<"main">>}
    [] cmd = "git rev-list -n1 @..origin" -> {<<>>, <<"c0ffee">>}
    [] cmd = "git tag --list" -> {<<>>, <<"v1.0.0">>, <<"v1.0.0", "v1.0.1">>, <<"v2.0.0">>}
    [] OTHER -> {<<>>}

\* git(args) and deno(args): { ok: status.success, text }
Results(cmd) == [ok : BOOLEAN, text : Outputs(cmd)]

\* The process is on the record from the moment it is spawned.
Ran(cmd, result) ==
  steps' = Append(steps, [cmd |-> cmd, ok |-> result.ok, text |-> result.text])

\* return c
Exit(c) == pc' = "done" /\ code' = <<c>>

Goto(label) == pc' = label /\ code' = code

\* The xy classes are not in play.
NoLibrary ==
  /\ cls = "U16XY"
  /\ heap = [i \in {1, 2} |-> Vec(Num(0), Num(0))]
  /\ cp = 0 /\ last = NoCall /\ prev = NoCall /\ n = 0

\* Deno.exit(await main()) is about to call main.
InitRelease ==
  /\ NoLibrary /\ NoPaint
  /\ pc = "args" /\ code = <<>> /\ steps = <<>>
  /\ file \in [text : Configs, writes : {0}]
  /\ releaseType = Null /\ pkg = JsonNull /\ nextVer = Null /\ branch = Null

\* Lines 22-33.
ReadArgs ==
  /\ pc = "args"
  /\ \E arg \in Args :
       /\ releaseType' = arg
       /\ IF arg = Null THEN Exit(1)
          ELSE IF ~isReleaseType(arg) THEN Exit(1)
          ELSE Goto("config")
  /\ UNCHANGED <<xy, paint, steps, file, pkg, nextVer, branch>>

\* Lines 35-39; a read or a parse that throws ends main without a return.
ReadConfig ==
  /\ pc = "config"
  /\ IF file.text.kind = "invalid"
     THEN Goto("threw") /\ pkg' = pkg
     ELSE /\ pkg' = file.text
          /\ IF ~isPackage(file.text) THEN Exit(1) ELSE Goto("inc")
  /\ UNCHANGED <<xy, paint, steps, file, releaseType, nextVer, branch>>

\* Lines 41-47.
Increment ==
  /\ pc = "inc"
  /\ \E ver \in NextVers \cup {Null} :
       /\ nextVer' = ver
       /\ IF ver = Null THEN Exit(1) ELSE Goto("status")
  /\ UNCHANGED <<xy, paint, steps, file, releaseType, pkg, branch>>

\* Lines 50-55, up to the prompt.
GitStatus ==
  /\ pc = "status"
  /\ \E result \in Results("git status -z") :
       /\ Ran("git status -z", result)
       /\ IF ~result.ok \/ ~isBlank(result.text) THEN Goto("dirty") ELSE Goto("update")
  /\ UNCHANGED <<xy, paint, file, releaseType, pkg, nextVer, branch>>

\* prompt(..): <enter> goes on, <ctrl-c> ends the process.
Prompt(at, next) ==
  /\ pc = at
  /\ \E key \in {"enter", "ctrl-c"} :
       IF key = "enter" THEN Goto(next) ELSE Goto("killed")
  /\ UNCHANGED <<xy, paint, steps, file, releaseType, pkg, nextVer, branch>>

\* Lines 57-63.
GitRemoteUpdate ==
  /\ pc = "update"
  /\ \E result \in Results("git remote update") :
       /\ Ran("git remote update", result)
       /\ IF ~result.ok THEN Exit(1) ELSE Goto("branch")
  /\ UNCHANGED <<xy, paint, file, releaseType, pkg, nextVer, branch>>

\* Lines 65-70.
GitRevParse ==
  /\ pc = "branch"
  /\ \E result \in Results("git rev-parse --abbrev-ref @") :
       /\ Ran("git rev-parse --abbrev-ref @", result)
       /\ branch' = Trim(result.text)
       /\ IF ~result.ok \/ Trim(result.text) = "" THEN Exit(1) ELSE Goto("behind")
  /\ UNCHANGED <<xy, paint, file, releaseType, pkg, nextVer>>

\* Lines 72-78.
GitRevList ==
  /\ pc = "behind"
  /\ \E result \in Results("git rev-list -n1 @..origin") :
       /\ Ran("git rev-list -n1 @..origin", result)
       /\ IF ~result.ok \/ ~isBlank(result.text) THEN Exit(1) ELSE Goto("test")
  /\ UNCHANGED <<xy, paint, file, releaseType, pkg, nextVer, branch>>

\* Lines 82-92.
GitTagList ==
  /\ pc = "tags"
  /\ \E result \in Results("git tag --list") :
       /\ Ran("git tag --list", result)
       /\ IF ~result.ok THEN Exit(1)
          ELSE LET gitVers == Split(result.text) IN
               IF \E i \in 1..Len(gitVers) : TagOf(nextVer) = gitVers[i]
               THEN Exit(1) ELSE Goto("write")
  /\ UNCHANGED <<xy, paint, file, releaseType, pkg, nextVer, branch>>

\* Lines 94-95; a write that throws leaves the file as it was.
WriteConfig ==
  /\ pc = "write"
  /\ pkg' = [pkg EXCEPT !.version = Str(nextVer)]
  /\ \E written \in BOOLEAN :
       IF written
       THEN /\ file' = [text |-> pkg', writes |-> file.writes + 1]
            /\ Goto("fmt")
       ELSE /\ file' = file
            /\ Goto("threw")
  /\ UNCHANGED <<xy, paint, steps, releaseType, nextVer, branch>>

\* A step of lines 97-134 as it would be if a failure before the push were
\* only reported.
Step_GoesOn(at, cmd, next) ==
  /\ pc = at
  /\ \E result \in Results(cmd) :
       /\ Ran(cmd, result)
       /\ IF next = "done" THEN Exit(IF result.ok THEN 0 ELSE 1) ELSE Goto(next)
  /\ UNCHANGED <<xy, paint, file, releaseType, pkg, nextVer, branch>>

\* Lines 97-134: result = await git(..) or deno(..); if (!result.ok) return 1;
\* after the last of them, return 0.
Step(at, cmd, next) ==
  /\ pc = at
  /\ \E result \in Results(cmd) :
       /\ Ran(cmd, result)
       /\ IF ~result.ok THEN Exit(1)
          ELSE IF next = "done" THEN Exit(0) ELSE Goto(next)
  /\ UNCHANGED <<xy, paint, file, releaseType, pkg, nextVer, branch>>

DenoFmt == Step("fmt", "deno fmt", "add")
GitAdd == Step("add", "git add", "commit")
GitCommit == Step("commit", "git commit", "ready")
GitTag == Step("tag", "git tag", "push")
GitPush == Step("push", "git push", "done")

NextRelease ==
  \/ ReadArgs
  \/ ReadConfig
  \/ Increment
  \/ GitStatus
  \/ Prompt("dirty", "update")
  \/ GitRemoteUpdate
  \/ GitRevParse
  \/ GitRevList
  \/ Prompt("test", "tags")
  \/ GitTagList
  \/ WriteConfig
  \/ DenoFmt
  \/ GitAdd
  \/ GitCommit
  \/ Prompt("ready", "tag")
  \/ GitTag
  \/ GitPush

SpecRelease == InitRelease /\ [][NextRelease]_vars

\* The processes main runs once the version file is written, in the order of
\* the claim.
Publishing == <<"deno fmt", "git add", "git commit", "git tag", "git push">>

IsPublishing(step) == \E i \in 1..Len(Publishing) : step.cmd = Publishing[i]

\* C22: after the version file is written main runs fmt, git add, git commit,
\* git tag and git push in that order and nothing else, each only after the
\* one before it has succeeded; a step that fails is the last one and main has
\* returned 1; main has returned 0 only after a git push that succeeded.
C22_PublishingInOrder ==
  \A post \in {SelectSeq(steps, IsPublishing)} :
    /\ post # <<>> => file.writes = 1
    /\ Len(post) <= Len(Publishing)
    /\ \A i \in 1..Len(post) :
         /\ post[i] = steps[Len(steps) - Len(post) + i]
         /\ post[i].cmd = Publishing[i]
         /\ i < Len(post) => post[i].ok
         /\ ~post[i].ok => i = Len(post) /\ pc = "done" /\ code = <<1>>
    /\ code = <<0>> =>
         /\ pc = "done"
         /\ Len(post) = Len(Publishing)
         /\ post[Len(post)].ok

\* fmt, add and commit went through, the tag failed and main has returned 1.
C22_Witness ==
  /\ Len(steps) >= 4
  /\ steps[Len(steps)].cmd = "git tag" /\ ~steps[Len(steps)].ok
  /\ steps[Len(steps) - 1].cmd = "git commit" /\ steps[Len(steps) - 1].ok
  /\ pc = "done" /\ code = <<1>>

\* The outcome of the one run of cmd so far, if there is one.
Outcomes(cmd) == {steps[i] : i \in {j \in 1..Len(steps) : steps[j].cmd = cmd}}

\* The pre-flight checks, read off main's locals and the processes it has
\* run: a check is made once main is past it, the checks before it having
\* passed.
ArgsPass == releaseType # Null /\ releaseType \in releaseTypes
ConfigPass ==
  /\ pkg.kind \in {"array", "object"}
  /\ pkg.name.type = "string" /\ pkg.version.type = "string"
IncrementPass == nextVer # Null
ArgsChecked == pc # "args"
ConfigChecked ==
  /\ ArgsChecked /\ ArgsPass
  /\ pc # "config" /\ ~(pc = "threw" /\ steps = <<>>)
Incremented == ConfigChecked /\ ConfigPass /\ pc # "inc"
UpdatePass(step) == step.ok
BranchPass(step) == step.ok /\ step.text # <<>>
OriginPass(step) == step.ok /\ step.text = <<>>
TagsPass(step) ==
  step.ok /\ \A i \in 1..Len(step.text) : step.text[i] # "v" \o nextVer

\* Every check has been made and has passed.
PreflightPassed ==
  /\ ArgsChecked /\ ArgsPass
  /\ ConfigChecked /\ ConfigPass
  /\ Incremented /\ IncrementPass
  /\ \E step \in Outcomes("git remote update") : UpdatePass(step)
  /\ \E step \in Outcomes("git rev-parse --abbrev-ref @") : BranchPass(step)
  /\ \E step \in Outcomes("git rev-list -n1 @..origin") : OriginPass(step)
  /\ \E step \in Outcomes("git tag --list") : TagsPass(step)

\* A check has been made and has failed.
PreflightFailed ==
  \/ ArgsChecked /\ ~ArgsPass
  \/ ConfigChecked /\ ~ConfigPass
  \/ Incremented /\ ~IncrementPass
  \/ \E step \in Outcomes("git remote update") : ~UpdatePass(step)
  \/ \E step \in Outcomes("git rev-parse --abbrev-ref @") : ~BranchPass(step)
  \/ \E step \in Outcomes("git rev-list -n1 @..origin") : ~OriginPass(step)
  \/ \E step \in Outcomes("git tag --list") : ~TagsPass(step)

\* C23: the version file is written at most once, and only after every
\* pre-flight check has passed; once a check has failed main has returned 1,
\* the file is as it was and there has been no commit, tag or push.
C23_WriteAfterPreflight ==
  /\ file.writes <= 1
  /\ file.writes = 1 => PreflightPassed
  /\ PreflightFailed =>
       /\ pc = "done" /\ code = <<1>>
       /\ file.writes = 0
       /\ ConfigChecked => file.text = pkg
       /\ \A i \in 1..Len(steps) :
            steps[i].cmd \notin {"git commit", "git tag", "git push"}

\* The file has been written with the next version, v<next> not being among
\* the tags listed.
C23_Witness ==
  /\ file.writes = 1
  /\ file.text.version = Str(nextVer)
  /\ \E step \in Outcomes("git tag --list") : step.text # <<>>

(***************************************************************************)
(* colorIntToFloats.  A colour is <<hi, lo>>, the integer hi * 2^16 + lo    *)
(* with lo in 0..65535: written unsigned (hi in 0..65535) or signed (hi in  *)
(* -32768..32767), the same 32 bits either way.                            *)
(***************************************************************************)
\* ToInt32, which >> applies to its left operand: the 32 bits as a signed
\* integer.
ToInt32(c) == (((c[1] + 32768) % 65536) - 32768) * 65536 + c[2]

\* v >> k for an int32 v: the sign bit is shifted in from the left.
ShiftRight(v, k) == v \div (2 ^ k)

\* v & 0xff as it would be with the mask 0x7f.
AndFF_SevenBits(v) == v % 128

\* v & 0xff: the low eight bits of the two's complement of v.
AndFF(v) == v % 256

colorIntToFloats(c) ==
  LET int == ToInt32(c) IN
  <<Over(Num(AndFF(ShiftRight(int, 24))), Num(255)),
    Over(Num(AndFF(ShiftRight(int, 16))), Num(255)),
    Over(Num(AndFF(ShiftRight(int, 8))), Num(255)),
    Over(Num(AndFF(ShiftRight(int, 0))), Num(255))>>

\* Colours with each byte at its ends and in between, the top bit clear and
\* set.
Highs == {-32768, -256, -1, 0, 1, 255, 256, 4660, 32767, 32768, 65280, 65535}
Lows == {0, 1, 255, 256, 4660, 43981, 65280, 65535}

InitPaint ==
  /\ NoLibrary /\ NoRelease
  /\ color \in Highs \X Lows
  /\ floats = <<>>

\* floats = colorIntToFloats(color)
Convert ==
  /\ floats = <<>>
  /\ floats' = colorIntToFloats(color)
  /\ UNCHANGED <<xy, release, color>>

NextPaint == Convert

SpecPaint == InitPaint /\ [][NextPaint]_vars

\* Bits 8k+7 .. 8k of the colour, k = 3 for the top byte, read off its halves.
ByteOf(c, k) ==
  CASE k = 3 -> (c[1] % 65536) \div 256
    [] k = 2 -> c[1] % 256
    [] k = 1 -> c[2] \div 256
    [] k = 0 -> c[2] % 256

\* C24: for every 32-bit colour, the top bit set or not, colorIntToFloats
\* returns four channels, bits 31-24 first and bits 7-0 last, each the byte
\* over 255 and so from 0 to 1, none negative.
C24_Channels ==
  floats # <<>> =>
    /\ Len(floats) = 4
    /\ \A i \in 1..4 :
         /\ ByteOf(color, 4 - i) \in 0..255
         /\ floats[i] = Norm(ByteOf(color, 4 - i), 255)
         /\ ~Lt(floats[i], Num(0))
         /\ ~Lt(Num(1), floats[i])

\* A colour with the top bit set, signed, has its first channel at 1 and its
\* last between 0 and 1.
C24_Witness ==
  /\ floats # <<>>
  /\ color[1] < 0
  /\ floats[1] = Num(1)
  /\ Lt(Num(0), floats[4]) /\ Lt(floats[4], Num(1))

=============================================================================
